---- MODULE Spec2Model ----
(***************************************************************************)
(* A model of tracing-span-dump (src/src/lib.rs): SpanDumpLayer keeps the  *)
(* open spans in an Arc<RwLock<SpanSnapshot>>; on_new_span and on_close    *)
(* mutate the map under the write lock, snapshot() clones it under the     *)
(* read lock, every other Layer hook is an empty function.                 *)
(*                                                                         *)
(* Several threads call the hooks concurrently.  A hook that takes the     *)
(* lock is split at the points where another thread can observe it: the    *)
(* call, the acquisition of the lock, the map operation followed by the    *)
(* drop of the guard at the closing brace, and the return to the caller.   *)
(***************************************************************************)
EXTENDS Naturals, FiniteSets, Sequences, TLC

\* ------------------------------------------------------------- bounds
NumThreads == 2
NumIds == 2
MaxOps == 3
MaxSeqOps == 4
MaxHookOps == 2
MaxLiveOps == 2
MaxPoisonOps == 2

Threads == 1..NumThreads
\* span::Id wraps a NonZeroU64: 0 is free to stand for Option::None.
Ids == 1..NumIds
None == 0
\* &'static Metadata of the call site: the layer passes the reference on and
\* never looks into it, one call site stands for all.
Metadatas == {"test"}

\* The parent part of span::Attributes: a root span, a span whose parent is
\* the current span of the calling thread (what info_span! builds), or a span
\* with an explicitly given parent.
Parents == {<<"Root", None>>, <<"Current", None>>} \cup {<<"Explicit", p>> : p \in Ids}

\* The parent the caller passed explicitly in the attributes, None when the
\* span is a root or contextual one.
ExplicitParent(parent) == IF parent[1] = "Explicit" THEN parent[2] ELSE None

\* a record that never gets a parent
AttrsParentDropped(attrs) == None

\* attrs.parent().cloned(): Attributes::parent() is the explicitly given parent,
\* and None for a root span and for a contextual one.
AttrsParent(attrs) == attrs.parent

\* ------------------------------------------------------------- state
VARIABLES
    spans,      \* the live SpanSnapshot.spans behind the RwLock: Id -> SpanRecord
    writer,     \* the thread holding the RwLock's write guard, or None
    readers,    \* the threads holding a read guard
    pc,         \* where each thread is
    arg,        \* the arguments of the call each thread is in: the id, the
                \* explicit parent and the metadata of the attributes, and ctx,
                \* the span that encloses a new span by context
    snaps,      \* the SpanSnapshot value each thread got from snapshot()
    ret,        \* what a thread's snapshot refers to: "none", "own" or "live"
    entered,    \* the subscriber's stack of entered spans of each thread
    budget,     \* hook and snapshot calls the threads may still make
    fresh,      \* how many span ids have appeared in a call: they are 1..fresh
    active,     \* how many threads have made a call: they are 1..active
    \* history variables: they record calls and returns, the program never reads them
    open,       \* ids whose last serialized write is an on_new_span
    lastAttrs,  \* per id, the arguments of the last serialized on_new_span
    clean,      \* per on_new_span(X) / on_close(X) call in progress: no on_close(X) /
                \* on_new_span(X) call has overlapped it so far
    exited,     \* ids an on_exit was delivered for
    newDone,    \* ids: an on_new_span returned, and no on_close returned since
    newSettled, \* ids: an on_new_span returned, no on_close overlapped it or was called since
    closedSince,\* ids: an on_close returned, no on_new_span overlapped it or was called since
    needDone,   \* per snapshot call: newDone at the call, minus the ids closed since
    needSettled,\* per snapshot call: newSettled at the call, minus the ids whose close began
    lack,       \* per snapshot call: closedSince at the call, minus the ids re-created
    cand,       \* per snapshot call: the states the live map has had since the call
    \* the handles and the lock's poison flag
    handle,     \* the Arc the SpanDumpLayer handle of each thread points to, None
                \* for a thread that has no handle
    poisoned,   \* the RwLock's poison flag
    \* more history variables
    stale,      \* threads holding a snapshot cloned before a later map operation
    overwritten,\* ids whose last insert replaced a different record
    renamed     \* the ids <<old, new>> of the last on_id_change delivered

prog == <<spans, writer, readers, pc, arg, snaps, ret, entered, budget, fresh, active>>
hist == <<open, lastAttrs, clean, exited, newDone, newSettled, closedSince, needDone, needSettled, lack, cand>>
more == <<handle, poisoned, stale, overwritten, renamed>>
vars == <<prog, hist, more>>

Empty == [k \in {} |-> None]
NoArg == [id |-> None, parent |-> None, metadata |-> "", ctx |-> None]

NewPcs == {"new_lock", "new_insert", "new_ret"}
ClosePcs == {"close_lock", "close_remove", "close_ret"}
\* a snapshot() call that has not cloned the map yet
PreClone == {"snap_lock", "snap_clone"}

\* Context::current_span() of the calling thread: the top of its stack.
Current(t) == IF entered[t] = <<>> THEN None ELSE entered[t][Len(entered[t])]

\* The span that encloses a span created on thread t: the current span when the
\* attributes are contextual; a root span and a span with an explicit parent
\* take none from the context.
Enclosing(t, parent) == IF parent[1] = "Current" THEN Current(t) ELSE None

\* ------------------------------------------------------------- SpanSnapshot
\* new_span with the insert lost
new_span_skipped(s, attrs, id) == s

\* new_span that leaves an entry already stored under the id as it is
new_span_keeps_first(s, attrs, id) ==
    [k \in (DOMAIN s) \cup {id} |->
        IF k \in DOMAIN s
        THEN s[k]
        ELSE [id |-> id, parent |-> attrs.parent, metadata |-> attrs.metadata]]

\* new_span that writes the id of the parent, when one is given, into the record
new_span_parent_id(s, attrs, id) ==
    [k \in (DOMAIN s) \cup {id} |->
        IF k = id
        THEN [id |-> IF AttrsParent(attrs) # None THEN AttrsParent(attrs) ELSE id,
              parent |-> AttrsParent(attrs), metadata |-> attrs.metadata]
        ELSE s[k]]

\* SpanSnapshot::new_span: HashMap::insert of a record built from the id and
\* the attributes; an existing entry under the id is replaced.
new_span(s, attrs, id) ==
    [k \in (DOMAIN s) \cup {id} |->
        IF k = id
        THEN [id |-> id, parent |-> AttrsParent(attrs), metadata |-> attrs.metadata]
        ELSE s[k]]

\* close_span with the remove lost
close_span_kept(s, id) == s

\* close_span that takes the spans below the closed one with it
close_span_cascade(s, id) == [k \in {j \in DOMAIN s : j # id /\ s[j].parent # id} |-> s[k]]

\* close_span that keeps a span while the map holds a child of it
close_span_leaf_only(s, id) ==
    IF \E j \in DOMAIN s : s[j].parent = id THEN s ELSE [k \in (DOMAIN s) \ {id} |-> s[k]]

\* close_span that makes roots of the children of the closed span
close_span_orphans(s, id) ==
    [k \in (DOMAIN s) \ {id} |->
        IF s[k].parent = id THEN [id |-> s[k].id, parent |-> None, metadata |-> s[k].metadata]
        ELSE s[k]]

\* SpanSnapshot::close_span: HashMap::remove, its result dropped.
close_span(s, id) == [k \in (DOMAIN s) \ {id} |-> s[k]]

\* on_enter that registers the span it enters when the map does not hold it
on_enter_opens(s, id) ==
    [k \in (DOMAIN s) \cup {id} |->
        IF k \in DOMAIN s THEN s[k] ELSE [id |-> id, parent |-> None, metadata |-> "test"]]

\* on_exit that treats leaving a span as its end
on_exit_closes(s, id) == [k \in (DOMAIN s) \ {id} |-> s[k]]

\* SpanDumpLayer::on_enter and on_exit: empty bodies, the map stays as it is.
on_enter(s, id) == s
on_exit(s, id) == s

\* on_id_change that moves the record of the old id under the new one
on_id_change_rekeys(s, old, new) ==
    IF old \in DOMAIN s
    THEN [k \in ((DOMAIN s) \ {old}) \cup {new} |->
             IF k = new THEN [id |-> new, parent |-> s[old].parent, metadata |-> s[old].metadata]
             ELSE s[k]]
    ELSE s

\* SpanDumpLayer::on_record, on_follows_from, on_event and on_id_change: empty
\* bodies, they take no lock and the map stays as it is.
on_record(s, span) == s
on_follows_from(s, span, follows) == s
on_event(s) == s
on_id_change(s, old, new) == s

\* a clone that keeps the root spans only
clone_roots(s) == [k \in {j \in DOMAIN s : s[j].parent = None} |-> s[k]]

\* #[derive(Clone)] on SpanSnapshot: a new map holding a clone of every record.
clone(s) == [k \in DOMAIN s |-> [id |-> s[k].id, parent |-> s[k].parent, metadata |-> s[k].metadata]]

\* a clone that moves the entries out of the map it reads
clone_source_taken(s) == Empty

\* The map behind the read guard after spans_read.clone(): Clone::clone takes
\* &self and the guard gives no mutable access, the source stays as it was.
clone_source(s) == s

\* snapshot() handing out a view of the map behind the lock
CloneRefLive == "live"

\* What snapshot() hands out: a value of its own, not a reference into the lock.
CloneRef == "own"

\* SpanSnapshot::open_spans of the snapshot thread t holds.
Contents(t) == IF ret[t] = "live" THEN spans ELSE snaps[t]
open_spans(t) == {Contents(t)[k] : k \in DOMAIN Contents(t)}
\* the snapshots the threads hold: returned by snapshot() and not dropped since
Holding == {t \in Threads : ret[t] # "none"}

\* ------------------------------------------------------------- RwLock
\* a write lock that does not wait for the readers
CanWriteOverReaders == writer = None

\* a lock whose callers take the guard out of the error and go on
LockResultRecovered(p) == "Ok"

\* What RwLock::read() and RwLock::write() return once the lock is theirs: Err
\* (PoisonError) when the poison flag p is set, and unwrap() panics on it.
LockResult(p) == IF p THEN "Err" ELSE "Ok"

\* a write guard that is never dropped (kept alive or leaked by thread t)
GuardLeaked(t) == t

\* The write guard of thread t goes out of scope at the closing brace of the
\* hook: nobody holds the write lock.
GuardDropped(t) == None

\* RwLock::write() returns when no guard of either kind is held.
CanWrite == writer = None /\ readers = {}
\* RwLock::read() returns when no write guard is held.
CanRead == writer = None

\* Arc::new in SpanDumpLayer::new(): the one allocation that holds the lock and
\* the map; the thread that constructs the layer has the first handle to it.
ArcNew == 1

\* a clone of the handle that comes with a lock and a map of its own
ArcCloneDetached(p) == p + 1

\* #[derive(Clone)] on SpanDumpLayer: Arc::clone of its one field, a pointer to
\* the same allocation.
ArcClone(p) == p

\* The map a handle reaches through its Arc: the live map for the allocation
\* made by new(); no hook runs on any other allocation.
Deref(p) == IF p = ArcNew THEN spans ELSE Empty

\* SpanDumpLayer::new(): an empty map behind a fresh lock; b calls lie ahead.
NewLayer(b) ==
    /\ spans = Empty
    /\ writer = None
    /\ readers = {}
    /\ pc = [t \in Threads |-> "idle"]
    /\ arg = [t \in Threads |-> NoArg]
    /\ snaps = [t \in Threads |-> Empty]
    /\ ret = [t \in Threads |-> "none"]
    /\ entered = [t \in Threads |-> <<>>]
    /\ budget = b
    /\ fresh = 0
    /\ active = 0
    /\ open = {}
    /\ lastAttrs = [i \in Ids |-> NoArg]
    /\ clean = [t \in Threads |-> TRUE]
    /\ exited = {}
    /\ newDone = {}
    /\ newSettled = {}
    /\ closedSince = {}
    /\ needDone = [t \in Threads |-> {}]
    /\ needSettled = [t \in Threads |-> {}]
    /\ lack = [t \in Threads |-> {}]
    /\ cand = [t \in Threads |-> {}]
    /\ handle = [t \in Threads |-> IF t = 1 THEN ArcNew ELSE None]
    /\ poisoned = FALSE
    /\ stale = {}
    /\ overwritten = {}
    /\ renamed = <<None, None>>

Init == NewLayer(MaxOps)

\* Span ids are opaque to the layer and threads are anonymous: the k-th id to
\* appear in a call is named k, and the k-th thread to make a call is thread k.
Max(a, b) == IF a >= b THEN a ELSE b
\* thread t makes a call that mentions the ids x and then y (None for no id)
Calls(t, x, y) ==
    /\ budget > 0
    /\ handle[t] # None
    /\ t <= active + 1
    /\ x <= fresh + 1
    /\ y <= Max(fresh, x) + 1
    /\ budget' = budget - 1
    /\ active' = Max(active, t)
    /\ fresh' = Max(fresh, Max(x, y))
\* thread t delivers a notification the layer has an empty body for, mentioning
\* the ids x and then y: neither the thread nor the ids leave a trace
Passes(t, x, y) ==
    /\ budget > 0
    /\ handle[t] # None
    /\ t <= active + 1
    /\ x <= fresh + 1
    /\ y <= Max(fresh, x) + 1
    /\ budget' = budget - 1
    /\ UNCHANGED <<fresh, active>>

\* thread t begins a call of one kind on id: it is clean unless a call of the other
\* kind (its threads are at one of otherPcs) on the same id is in progress, and every
\* such call stops being clean
Overlap(t, id, otherPcs) ==
    [u \in Threads |->
        IF u = t THEN ~ \E v \in Threads : pc[v] \in otherPcs /\ arg[v].id = id
        ELSE IF pc[u] \in otherPcs /\ arg[u].id = id THEN FALSE
        ELSE clean[u]]

\* in every snapshot call that has not cloned yet, drop id from the set f keeps
Forget(f, id) == [u \in Threads |-> IF pc[u] \in PreClone THEN f[u] \ {id} ELSE f[u]]
\* in every snapshot call that has not cloned yet, note the new state of the map
Seen(s) == [u \in Threads |-> IF pc[u] \in PreClone THEN cand[u] \cup {s} ELSE cand[u]]

\* ------------------------------------------------------------- SpanDumpLayer::clone
\* The handle of thread t is cloned for thread u, the next thread to make calls
\* (the tests hand the clone to the subscriber and keep the original for
\* snapshot()).  clone() takes &self: the handle may be in use meanwhile.
CloneHandle(t, u) ==
    /\ handle[t] # None
    /\ handle[u] = None
    /\ u = active + 1
    /\ handle' = [handle EXCEPT ![u] = ArcClone(handle[t])]
    /\ UNCHANGED <<prog, hist, poisoned, stale, overwritten, renamed>>

\* ------------------------------------------------------------- on_new_span
NewSpanCall(t, id, parent, metadata) ==
    /\ pc[t] = "idle"
    /\ Calls(t, id, parent[2])
    /\ pc' = [pc EXCEPT ![t] = "new_lock"]
    /\ arg' = [arg EXCEPT ![t] = [id |-> id, parent |-> ExplicitParent(parent),
                                  metadata |-> metadata, ctx |-> Enclosing(t, parent)]]
    /\ closedSince' = closedSince \ {id}
    /\ lack' = Forget(lack, id)
    /\ clean' = Overlap(t, id, ClosePcs)
    /\ UNCHANGED <<spans, writer, readers, snaps, ret, entered>>
    /\ UNCHANGED <<open, lastAttrs, exited, newDone, newSettled, needDone, needSettled, cand>>
    /\ UNCHANGED more

NewSpanAcquire(t) ==
    /\ pc[t] = "new_lock"
    /\ CanWrite
    /\ LockResult(poisoned) = "Ok"
    /\ writer' = t
    /\ pc' = [pc EXCEPT ![t] = "new_insert"]
    /\ open' = open \cup {arg[t].id}
    /\ lastAttrs' = [lastAttrs EXCEPT ![arg[t].id] = arg[t]]
    /\ UNCHANGED <<spans, readers, arg, snaps, ret, entered, budget, fresh, active>>
    /\ UNCHANGED <<clean, exited, newDone, newSettled, closedSince, needDone, needSettled, lack, cand>>
    /\ UNCHANGED more

\* spans_write.new_span(attrs, id), and the write guard drops at the closing brace.
NewSpanInsert(t) ==
    /\ pc[t] = "new_insert"
    /\ spans' = new_span(spans, arg[t], arg[t].id)
    /\ writer' = GuardDropped(t)
    /\ pc' = [pc EXCEPT ![t] = "new_ret"]
    /\ cand' = Seen(spans')
    /\ stale' = Holding
    /\ overwritten' = IF arg[t].id \in DOMAIN spans /\ spans'[arg[t].id] # spans[arg[t].id]
                      THEN overwritten \cup {arg[t].id}
                      ELSE overwritten \ {arg[t].id}
    /\ UNCHANGED <<readers, arg, snaps, ret, entered, budget, fresh, active>>
    /\ UNCHANGED <<open, lastAttrs, clean, exited, newDone, newSettled, closedSince, needDone, needSettled, lack>>
    /\ UNCHANGED <<handle, poisoned, renamed>>

NewSpanReturn(t) ==
    /\ pc[t] = "new_ret"
    /\ pc' = [pc EXCEPT ![t] = "idle"]
    /\ arg' = [arg EXCEPT ![t] = NoArg]
    /\ newDone' = newDone \cup {arg[t].id}
    /\ newSettled' = IF clean[t] THEN newSettled \cup {arg[t].id} ELSE newSettled
    /\ clean' = [clean EXCEPT ![t] = TRUE]
    /\ UNCHANGED <<spans, writer, readers, snaps, ret, entered, budget, fresh, active>>
    /\ UNCHANGED <<open, lastAttrs, exited, closedSince, needDone, needSettled, lack, cand>>
    /\ UNCHANGED more

\* ------------------------------------------------------------- on_close
CloseCall(t, id) ==
    /\ pc[t] = "idle"
    /\ Calls(t, id, None)
    /\ pc' = [pc EXCEPT ![t] = "close_lock"]
    /\ arg' = [arg EXCEPT ![t] = [NoArg EXCEPT !.id = id]]
    /\ newSettled' = newSettled \ {id}
    /\ needSettled' = Forget(needSettled, id)
    /\ clean' = Overlap(t, id, NewPcs)
    /\ UNCHANGED <<spans, writer, readers, snaps, ret, entered>>
    /\ UNCHANGED <<open, lastAttrs, exited, newDone, closedSince, needDone, lack, cand>>
    /\ UNCHANGED more

CloseAcquire(t) ==
    /\ pc[t] = "close_lock"
    /\ CanWrite
    /\ LockResult(poisoned) = "Ok"
    /\ writer' = t
    /\ pc' = [pc EXCEPT ![t] = "close_remove"]
    /\ open' = open \ {arg[t].id}
    /\ UNCHANGED <<spans, readers, arg, snaps, ret, entered, budget, fresh, active>>
    /\ UNCHANGED <<lastAttrs, clean, exited, newDone, newSettled, closedSince, needDone, needSettled, lack, cand>>
    /\ UNCHANGED more

\* spans_write.close_span(id), and the write guard drops at the closing brace.
CloseRemove(t) ==
    /\ pc[t] = "close_remove"
    /\ spans' = close_span(spans, arg[t].id)
    /\ writer' = GuardDropped(t)
    /\ pc' = [pc EXCEPT ![t] = "close_ret"]
    /\ cand' = Seen(spans')
    /\ stale' = Holding
    /\ UNCHANGED <<readers, arg, snaps, ret, entered, budget, fresh, active>>
    /\ UNCHANGED <<open, lastAttrs, clean, exited, newDone, newSettled, closedSince, needDone, needSettled, lack>>
    /\ UNCHANGED <<handle, poisoned, overwritten, renamed>>

CloseReturn(t) ==
    /\ pc[t] = "close_ret"
    /\ pc' = [pc EXCEPT ![t] = "idle"]
    /\ arg' = [arg EXCEPT ![t] = NoArg]
    /\ newDone' = newDone \ {arg[t].id}
    /\ needDone' = Forget(needDone, arg[t].id)
    /\ closedSince' = IF clean[t] THEN closedSince \cup {arg[t].id} ELSE closedSince
    /\ clean' = [clean EXCEPT ![t] = TRUE]
    /\ UNCHANGED <<spans, writer, readers, snaps, ret, entered, budget, fresh, active>>
    /\ UNCHANGED <<open, lastAttrs, exited, newSettled, needSettled, lack, cand>>
    /\ UNCHANGED more

\* ------------------------------------------------------------- snapshot
\* The caller drops the snapshot it held before and calls snapshot().
SnapshotBegin(t) ==
    /\ pc[t] = "idle"
    /\ pc' = [pc EXCEPT ![t] = "snap_lock"]
    /\ snaps' = [snaps EXCEPT ![t] = Empty]
    /\ ret' = [ret EXCEPT ![t] = "none"]
    /\ needDone' = [needDone EXCEPT ![t] = newDone]
    /\ needSettled' = [needSettled EXCEPT ![t] = newSettled]
    /\ lack' = [lack EXCEPT ![t] = closedSince]
    /\ cand' = [cand EXCEPT ![t] = {spans}]
    /\ stale' = stale \ {t}
    /\ UNCHANGED <<spans, writer, readers, arg, entered>>
    /\ UNCHANGED <<open, lastAttrs, clean, exited, newDone, newSettled, closedSince>>
    /\ UNCHANGED <<handle, poisoned, overwritten, renamed>>

\* one of the calls the bound counts
SnapshotCall(t) == Calls(t, None, None) /\ SnapshotBegin(t)

\* A monitor that polls: snapshot() calls that may go on for ever, the bound
\* does not count them.
Poll(t) ==
    /\ handle[t] # None
    /\ t <= active + 1
    /\ active' = Max(active, t)
    /\ UNCHANGED <<budget, fresh>>
    /\ SnapshotBegin(t)

SnapshotAcquire(t) ==
    /\ pc[t] = "snap_lock"
    /\ CanRead
    /\ LockResult(poisoned) = "Ok"
    /\ readers' = readers \cup {t}
    /\ pc' = [pc EXCEPT ![t] = "snap_clone"]
    /\ UNCHANGED <<spans, writer, arg, snaps, ret, entered, budget, fresh, active, hist>>
    /\ UNCHANGED more

\* spans_read.clone(); the read guard drops at the closing brace and the clone
\* goes to the caller.
SnapshotClone(t) ==
    /\ pc[t] = "snap_clone"
    /\ snaps' = [snaps EXCEPT ![t] = clone(Deref(handle[t]))]
    /\ ret' = [ret EXCEPT ![t] = CloneRef]
    /\ readers' = readers \ {t}
    /\ pc' = [pc EXCEPT ![t] = "idle"]
    /\ spans' = clone_source(spans)
    /\ UNCHANGED <<writer, arg, entered, budget, fresh, active, hist>>
    /\ UNCHANGED more

\* ------------------------------------------------------------- on_enter, on_exit
\* Both hooks have an empty body.  The subscriber that calls them pushes the
\* span on the thread's stack before on_enter and pops it before on_exit.
Enter(t, id) ==
    /\ pc[t] = "idle"
    /\ Calls(t, id, None)
    /\ \A i \in 1..Len(entered[t]) : entered[t][i] # id
    /\ entered' = [entered EXCEPT ![t] = Append(entered[t], id)]
    /\ spans' = on_enter(spans, id)
    /\ UNCHANGED <<writer, readers, pc, arg, snaps, ret, hist>>
    /\ UNCHANGED more

Exit(t, id) ==
    /\ pc[t] = "idle"
    /\ Calls(t, id, None)
    /\ Current(t) = id
    /\ entered' = [entered EXCEPT ![t] = SubSeq(entered[t], 1, Len(entered[t]) - 1)]
    /\ spans' = on_exit(spans, id)
    /\ exited' = exited \cup {id}
    /\ UNCHANGED <<writer, readers, pc, arg, snaps, ret>>
    /\ UNCHANGED <<open, lastAttrs, clean, newDone, newSettled, closedSince, needDone, needSettled, lack, cand>>
    /\ UNCHANGED more

\* ------------------------------------------------------------- the other hooks
\* Empty bodies: the call returns at once, whatever the other threads do.
Record(t, span) ==
    /\ pc[t] = "idle"
    /\ Passes(t, span, None)
    /\ spans' = on_record(spans, span)
    /\ UNCHANGED <<writer, readers, pc, arg, snaps, ret, entered, hist>>
    /\ UNCHANGED more

FollowsFrom(t, span, follows) ==
    /\ pc[t] = "idle"
    /\ Passes(t, span, follows)
    /\ spans' = on_follows_from(spans, span, follows)
    /\ UNCHANGED <<writer, readers, pc, arg, snaps, ret, entered, hist>>
    /\ UNCHANGED more

Event(t) ==
    /\ pc[t] = "idle"
    /\ Passes(t, None, None)
    /\ spans' = on_event(spans)
    /\ UNCHANGED <<writer, readers, pc, arg, snaps, ret, entered, hist>>
    /\ UNCHANGED more

IdChange(t, old, new) ==
    /\ pc[t] = "idle"
    /\ Passes(t, old, new)
    /\ spans' = on_id_change(spans, old, new)
    /\ renamed' = <<old, new>>
    /\ UNCHANGED <<writer, readers, pc, arg, snaps, ret, entered, hist>>
    /\ UNCHANGED <<handle, poisoned, stale, overwritten>>

\* ------------------------------------------------------------- panics
\* Thread t fails while it holds the write guard: the guard is dropped during
\* the unwinding, which sets the poison flag and frees the lock; the map
\* operation has not happened and the call never returns.
Panics(t) ==
    /\ pc[t] \in {"new_insert", "close_remove"}
    /\ poisoned' = TRUE
    /\ writer' = None
    /\ pc' = [pc EXCEPT ![t] = "panicked"]
    /\ UNCHANGED <<spans, readers, arg, snaps, ret, entered, budget, fresh, active, hist>>
    /\ UNCHANGED <<handle, stale, overwritten, renamed>>

\* self.spans.write().unwrap() / read().unwrap() on the poisoned lock: the
\* lock is taken, the result is Err, unwrap() panics and the guard inside the
\* error is dropped with it.
NewSpanUnwrapFails(t) ==
    /\ pc[t] = "new_lock"
    /\ CanWrite
    /\ LockResult(poisoned) = "Err"
    /\ pc' = [pc EXCEPT ![t] = "panicked"]
    /\ UNCHANGED <<spans, writer, readers, arg, snaps, ret, entered, budget, fresh, active, hist, more>>

CloseUnwrapFails(t) ==
    /\ pc[t] = "close_lock"
    /\ CanWrite
    /\ LockResult(poisoned) = "Err"
    /\ pc' = [pc EXCEPT ![t] = "panicked"]
    /\ UNCHANGED <<spans, writer, readers, arg, snaps, ret, entered, budget, fresh, active, hist, more>>

SnapshotUnwrapFails(t) ==
    /\ pc[t] = "snap_lock"
    /\ CanRead
    /\ LockResult(poisoned) = "Err"
    /\ pc' = [pc EXCEPT ![t] = "panicked"]
    /\ UNCHANGED <<spans, writer, readers, arg, snaps, ret, entered, budget, fresh, active, hist, more>>

Fails(t) ==
    \/ Panics(t)
    \/ NewSpanUnwrapFails(t)
    \/ CloseUnwrapFails(t)
    \/ SnapshotUnwrapFails(t)

\* thread t goes on inside the call it is in
Progress(t) ==
    \/ NewSpanAcquire(t)
    \/ NewSpanInsert(t)
    \/ NewSpanReturn(t)
    \/ CloseAcquire(t)
    \/ CloseRemove(t)
    \/ CloseReturn(t)
    \/ SnapshotAcquire(t)
    \/ SnapshotClone(t)

\* thread t, idle, is given a span event or a handle
Begins(t) ==
    \/ \E id \in Ids, parent \in Parents, metadata \in Metadatas :
           NewSpanCall(t, id, parent, metadata)
    \/ \E id \in Ids : CloseCall(t, id)
    \/ \E id \in Ids : Enter(t, id)
    \/ \E id \in Ids : Exit(t, id)
    \/ \E u \in Threads : CloneHandle(t, u)

Step(t) == Begins(t) \/ SnapshotCall(t) \/ Progress(t)

\* the hooks with an empty body that the layer gets besides on_enter and on_exit
Hook(t) ==
    \/ \E span \in Ids : Record(t, span)
    \/ \E span \in Ids, follows \in Ids : FollowsFrom(t, span, follows)
    \/ Event(t)
    \/ \E old \in Ids, new \in Ids : IdChange(t, old, new)

\* Threads of a multi-threaded program: calls overlap in every way the lock allows.
Next == \E t \in Threads : Step(t)

Spec == Init /\ [][Next]_vars

\* A cooperative single-threaded scheduler: a call runs to its return before the
\* next one begins (the tests run like this), so more calls fit in the bounds.
InitSeq == NewLayer(MaxSeqOps)

NextSeq == \E t \in Threads : (\A u \in Threads \ {t} : pc[u] = "idle") /\ Step(t)

SpecSeq == InitSeq /\ [][NextSeq]_vars

\* The threads of Spec, any of which may fail while it holds the write guard.
InitPoison == NewLayer(MaxPoisonOps)

NextPoison == \E t \in Threads : Step(t) \/ Fails(t)

SpecPoison == InitPoison /\ [][NextPoison]_vars

\* The calls that take the lock, snapshots being taken without end.  The
\* operating system schedules every thread that can run: a thread inside a
\* call goes on whenever it stays able to.  std's RwLock promises no priority
\* between waiting readers and writers, so nothing more is assumed of the lock.
InitLive == NewLayer(MaxLiveOps)

NextLive ==
    \E t \in Threads :
        \/ \E id \in Ids, parent \in Parents, metadata \in Metadatas :
               NewSpanCall(t, id, parent, metadata)
        \/ \E id \in Ids : CloseCall(t, id)
        \/ \E u \in Threads : CloneHandle(t, u)
        \/ Poll(t)
        \/ Progress(t)

SpecLive == InitLive /\ [][NextLive]_vars /\ \A t \in Threads : WF_vars(Progress(t))

\* The threads of Spec, with the subscriber also delivering records, follows-from
\* relations, events and id changes to the layer.
InitHooks == NewLayer(MaxHookOps)

NextHooks == \E t \in Threads : Step(t) \/ Hook(t)

SpecHooks == InitHooks /\ [][NextHooks]_vars

\* ------------------------------------------------------------- properties
\* an on_new_span or on_close call holds the write guard and has not changed the map yet
Mutating == \E t \in Threads : pc[t] \in {"new_insert", "close_remove"}

\* C1, as stated: a snapshot that begins after on_new_span(X) returned contains
\* X unless an on_close(X) has returned by the time the snapshot reads the map.
C1_UntilCloseCompletes == \A t \in Holding : needDone[t] \subseteq DOMAIN Contents(t)

\* C1, amended: a snapshot that begins after on_new_span(X) returned contains X
\* unless an on_close(X) call overlapped that on_new_span call or has begun by
\* the time the snapshot reads the map.
C1_UntilCloseBegins == \A t \in Holding : needSettled[t] \subseteq DOMAIN Contents(t)

\* a snapshot was owed an id and another thread is inside a call meanwhile
C1_Witness ==
    \E t \in Holding : needSettled[t] # {} /\ \E u \in Threads \ {t} : pc[u] # "idle"

\* C2: a snapshot that begins after on_close(X) returned does not contain X,
\* unless X was created again: an on_new_span(X) call overlapped that on_close
\* call or has begun by the time the snapshot reads the map.
C2_ClosedIsGone == \A t \in Holding : lack[t] \cap DOMAIN Contents(t) = {}

\* a snapshot had to leave out a closed id while it held another span
C2_Witness == \E t \in Holding : lack[t] # {} /\ Contents(t) # Empty

\* C3: whenever no mutation is in progress, the keys of the live map are the
\* ids created and not closed since, in the order the writes were serialized.
C3_OpenSet == ~ Mutating => DOMAIN spans = open

\* an id is open while another was created and closed again
C3_Witness == ~ Mutating /\ spans # Empty /\ closedSince \ DOMAIN spans # {}

\* C4: on_enter and on_exit leave the live map as it is, and an id leaves the
\* live map only in the remove step of an on_close for that id.
C4_EnterExitIrrelevant ==
    [][ /\ (entered' # entered => spans' = spans)
        /\ \A x \in (DOMAIN spans) \ (DOMAIN spans') :
               \E t \in Threads : /\ pc[t] = "close_remove"
                                  /\ pc'[t] = "close_ret"
                                  /\ arg[t].id = x ]_vars

\* a span was created, entered, exited and entered again, and is in the live map
C4_Witness ==
    \E t \in Threads, x \in exited : Current(t) = x /\ x \in DOMAIN spans /\ x \in newSettled

\* C5: the records of a snapshot a thread holds stay what they were, whatever
\* the threads do to the live map.
C5_SnapshotIsolation ==
    [][\A t \in Threads :
          (ret[t] # "none" /\ ret'[t] # "none") => Contents(t)' = Contents(t)]_vars

\* a thread holds a snapshot, and the live map has moved on
C5_Witness == \E t \in Holding : pc[t] = "idle" /\ Contents(t) # spans /\ Contents(t) # Empty

\* C6: a snapshot is the live map as it was at one point of the serialized
\* order of writes, no earlier than the state the map had when snapshot() was
\* called (which holds every write of a call that had returned by then).
C6_Linearizable == \A t \in Holding : Contents(t) \in cand[t]

\* a snapshot took a state written while the snapshot() call was waiting
C6_Witness ==
    \E t \in Holding : Cardinality(cand[t]) > 1 /\ Contents(t) # Empty

\* the threads inside the guarded section
Writing == {t \in Threads : pc[t] \in {"new_insert", "close_remove"}}
Reading == {t \in Threads : pc[t] = "snap_clone"}

\* C7: at most one writer is inside the guarded section, and no reader is
\* inside with it; the lock's own state says who is inside.
C7_LockDiscipline ==
    /\ Cardinality(Writing) <= 1
    /\ (Writing # {} => Reading = {})
    /\ Writing = {t \in Threads : writer = t}
    /\ Reading = readers

\* two snapshot() calls hold shared access together
C7_Witness == Cardinality(Reading) >= 2

\* C8: the remove step of on_close(X) with X absent leaves the live map as it
\* is and ends the call like any other.
C8_IdempotentClose ==
    [][\A t \in Threads :
          (pc[t] = "close_remove" /\ pc'[t] # pc[t] /\ arg[t].id \notin DOMAIN spans)
              => (spans' = spans /\ pc'[t] = "close_ret")]_vars

\* a second on_close(X) in a row has done its remove step, other spans being open
C8_Witness ==
    \E t \in Threads : pc[t] = "close_ret" /\ arg[t].id \in closedSince /\ spans # Empty

\* C9: (a) after on_new_span(Y) with the explicit parent X was serialized, the
\* record of Y in the live map has parent X; (b) so has the record of Y in a
\* snapshot, at the moment it is cloned; (c) a step changes or removes the
\* record of Y only if it is the map step of an on_new_span(Y) or on_close(Y).
C9_ParentLinkage ==
    [][ /\ \A y \in DOMAIN spans' :
               (lastAttrs'[y].parent # None
                    /\ ~ \E t \in Threads : pc'[t] = "new_insert" /\ arg'[t].id = y)
                   => spans'[y].parent = lastAttrs'[y].parent
        /\ \A t \in Threads : \A y \in DOMAIN snaps'[t] :
               (pc[t] = "snap_clone" /\ pc'[t] = "idle" /\ lastAttrs[y].parent # None)
                   => snaps'[t][y].parent = lastAttrs[y].parent
        /\ \A y \in DOMAIN spans :
               (y \notin DOMAIN spans' \/ spans'[y] # spans[y])
                   => \E t \in Threads : /\ pc[t] \in {"new_insert", "close_remove"}
                                          /\ arg[t].id = y ]_vars

\* a snapshot holds Y with parent X, and X was created, closed before the
\* snapshot and is not in it
C9_Witness ==
    \E t \in Holding : \E y \in DOMAIN Contents(t) :
        /\ Contents(t)[y].parent \in closedSince
        /\ lastAttrs[Contents(t)[y].parent] # NoArg
        /\ Contents(t)[y].parent \notin DOMAIN Contents(t)
        /\ Contents(t)[y].parent \notin DOMAIN spans

\* C10: the record of a span Y created with no parent passed explicitly has as
\* its parent the span X that enclosed it by context (X was current on the
\* calling thread and the attributes were contextual), X being another span that
\* is open in the live map, and has no parent when no span enclosed it.
C10_ParentIsEnclosing ==
    \A y \in DOMAIN spans :
        (/\ lastAttrs[y].parent = None
         /\ ~ \E t \in Threads : pc[t] = "new_insert" /\ arg[t].id = y
         /\ \/ lastAttrs[y].ctx = None
            \/ lastAttrs[y].ctx # y /\ lastAttrs[y].ctx \in DOMAIN spans)
            => spans[y].parent = lastAttrs[y].ctx

\* C11: the insert step of on_new_span(X) with X already stored puts the record
\* built from the new attributes under X, ends the call like any other and
\* leaves the number of records as it is; the remove step of an on_close(X)
\* leaves no record under X.
C11_DuplicateOverwrites ==
    [][\A t \in Threads :
          /\ (pc[t] = "new_insert" /\ pc'[t] # pc[t] /\ arg[t].id \in DOMAIN spans)
                 => /\ spans'[arg[t].id] = [id |-> arg[t].id, parent |-> arg[t].parent,
                                            metadata |-> arg[t].metadata]
                    /\ Cardinality(DOMAIN spans') = Cardinality(DOMAIN spans)
                    /\ pc'[t] = "new_ret"
          /\ (pc[t] = "close_remove" /\ pc'[t] # pc[t])
                 => arg[t].id \notin DOMAIN spans']_vars

\* X was created twice with different attributes, and one on_close(X) has
\* done its remove step
C11_Witness ==
    \E t \in Threads : /\ pc[t] = "close_ret"
                        /\ arg[t].id \in overwritten
                        /\ arg[t].id \notin DOMAIN spans

\* a call is delivered that is none of on_new_span, on_close, snapshot, on_enter
\* and on_exit: on_record, on_follows_from, on_event or on_id_change
OtherHook ==
    /\ budget' # budget
    /\ entered' = entered
    /\ \A t \in Threads : pc[t] = "idle" => pc'[t] \notin {"new_lock", "close_lock", "snap_lock"}

\* C12: a step that delivers on_record, on_follows_from, on_event or
\* on_id_change leaves the live map and the lock as they are and the calling
\* thread where it was, ready for its next call; after on_id_change(old, new)
\* a record stored under old is still there and none has appeared under new.
C12_OtherHooksNoOps ==
    [][ /\ OtherHook => /\ spans' = spans
                        /\ writer' = writer /\ readers' = readers /\ poisoned' = poisoned
                        /\ pc' = pc
        /\ (OtherHook /\ renamed' # renamed) =>
               /\ renamed'[1] \in DOMAIN spans =>
                      (renamed'[1] \in DOMAIN spans' /\ spans'[renamed'[1]] = spans[renamed'[1]])
               /\ renamed'[2] \notin DOMAIN spans => renamed'[2] \notin DOMAIN spans' ]_vars

\* on_id_change(old, new) was delivered with a record under old and none
\* under new, while another thread was inside on_new_span or on_close
C12_Witness ==
    /\ renamed[1] \in DOMAIN spans
    /\ renamed[2] \notin DOMAIN spans
    /\ renamed[2] # None
    /\ lastAttrs[renamed[2]] = NoArg
    /\ \E t \in Threads : pc[t] \in NewPcs \cup ClosePcs

\* C13: the handles all reach the same map at every moment, and the snapshot
\* a thread takes through its handle is the live map that the on_new_span and
\* on_close calls of all threads, each through its own handle, have written.
C13_HandlesShare ==
    [][ /\ \A t, u \in Threads :
               (handle'[t] # None /\ handle'[u] # None)
                   => /\ handle'[t] = handle'[u]
                      /\ Deref(handle[t])' = Deref(handle[u])'
        /\ \A t \in Threads :
               (pc[t] = "snap_clone" /\ pc'[t] = "idle") => Contents(t)' = spans ]_vars

\* thread 2 got a clone of the handle, thread 1 made one call and thread 2
\* one: the snapshot thread 2 holds has the span thread 1 created
C13_Witness ==
    /\ handle[2] # None
    /\ 2 \in Holding
    /\ Contents(2) # Empty
    /\ budget = MaxOps - 2

\* no on_enter has been delivered for x on any thread
NeverEntered(x) == x \notin exited /\ \A t \in Threads : \A i \in 1..Len(entered[t]) : entered[t][i] # x

\* C14: for a span X that was never entered: X is in the live map once its
\* on_new_span has returned and until an on_close(X) is called, and in every
\* snapshot called in that time; X is in neither once its on_close has
\* returned and until X is created again.
C14_OpenWithoutEnter ==
    \A x \in Ids : NeverEntered(x) =>
        /\ (x \in newSettled => x \in DOMAIN spans)
        /\ (x \in closedSince => x \notin DOMAIN spans)
        /\ \A t \in Holding :
               /\ (x \in needSettled[t] => x \in DOMAIN Contents(t))
               /\ (x \in lack[t] => x \notin DOMAIN Contents(t))

\* create(1), close(1), create(2), snapshot, no span ever entered: the
\* snapshot holds exactly span 2
C14_Witness ==
    \E t \in Holding :
        /\ DOMAIN Contents(t) = {2}
        /\ 1 \in lack[t]
        /\ 2 \in needSettled[t]
        /\ NeverEntered(1) /\ NeverEntered(2)

\* the ids an on_new_span was serialized for
Created == {i \in Ids : lastAttrs[i] # NoArg}
\* no on_new_span or on_close call is in progress
Quiet == \A t \in Threads : pc[t] \notin NewPcs \cup ClosePcs

\* C15: when no on_new_span or on_close is in progress and every id created
\* so far (none, for a new layer) has been closed since, the live map is empty
\* and so is every snapshot cloned since the last map operation.
C15_EmptyWhenAllClosed ==
    (Quiet /\ Created \subseteq closedSince) =>
        /\ spans = Empty
        /\ \A t \in Holding \ stale : open_spans(t) = {}

\* a span and a child of it were created and both were closed: the map is empty
C15_Witness ==
    /\ Quiet
    /\ Created \subseteq closedSince
    /\ \E x, y \in Created : x # y /\ lastAttrs[y].parent = x

\* a call waits for the lock / holds it
WaitPcs == {"new_lock", "close_lock", "snap_lock"}
InsidePcs == {"new_insert", "close_remove", "snap_clone"}
\* every thread but t is outside the layer
Alone(t) == \A u \in Threads \ {t} : pc[u] = "idle"

C17_OneRecordPerMutation ==
    [][\A t \in Threads :
          (pc[t] \in {"new_insert", "close_remove"} /\ pc'[t] # pc[t]) =>
              \A k \in Ids \ {arg[t].id} :
                  /\ (k \in DOMAIN spans <=> k \in DOMAIN spans')
                  /\ (k \in DOMAIN spans => spans'[k] = spans[k])]_vars

\* on_close(X) has removed X, and a child of X is in the live map
C17_Witness ==
    \E t \in Threads :
        /\ pc[t] = "close_ret"
        /\ lastAttrs[arg[t].id] # NoArg
        /\ arg[t].id \notin DOMAIN spans
        /\ \E y \in DOMAIN spans : spans[y].parent = arg[t].id

\* C18: the poison flag, once set, stays set; from then on no step changes the
\* live map or hands out a snapshot, and a call that gets to the lock ends in
\* a panic; no call panics while the flag is not set.
C18_PoisonIsFatal ==
    [][ /\ poisoned =>
               /\ poisoned'
               /\ spans' = spans
               /\ \A t \in Threads :
                      /\ (ret'[t] # "none" => (ret[t] = ret'[t] /\ snaps'[t] = snaps[t]))
                      /\ ((pc[t] \in WaitPcs /\ pc'[t] # pc[t]) => pc'[t] = "panicked")
                      /\ pc'[t] \notin InsidePcs
        /\ \A t \in Threads : pc'[t] = "panicked" => poisoned' ]_vars

\* a thread failed holding the write guard, and a call the other thread made
\* has panicked at the lock
C18_Witness ==
    /\ poisoned
    /\ Cardinality({t \in Threads : pc[t] = "panicked"}) >= 2

\* C19: in the live map and in every snapshot held, the record stored under
\* key k has id k; the records open_spans() yields, one per key, have as many
\* different ids as there are keys.
C19_KeyIsRecordId ==
    /\ \A k \in DOMAIN spans : spans[k].id = k
    /\ \A t \in Holding :
           /\ \A k \in DOMAIN Contents(t) : Contents(t)[k].id = k
           /\ Cardinality({r.id : r \in open_spans(t)}) = Cardinality(DOMAIN Contents(t))
           /\ Cardinality(open_spans(t)) = Cardinality(DOMAIN Contents(t))

\* a snapshot holds two records, one of them of a span with a parent
C19_Witness ==
    \E t \in Holding :
        /\ Cardinality(DOMAIN Contents(t)) >= 2
        /\ \E k \in DOMAIN Contents(t) : Contents(t)[k].parent # None

\* the records of the live map
LiveRecords == {spans[k] : k \in DOMAIN spans}

\* C20: no step of a snapshot() call changes the live map, and the snapshots
\* held with no insert or remove done since they were cloned have the same
\* records, those of the live map, whichever thread and handle took them.
C20_SnapshotPureRead ==
    [][ /\ \A t \in Threads :
               (pc[t] # pc'[t] /\ (pc'[t] \in PreClone \/ pc[t] \in PreClone)) => spans' = spans
        /\ \A t, u \in Holding' \ stale' :
               /\ open_spans(t)' = open_spans(u)'
               /\ open_spans(t)' = LiveRecords' ]_vars

\* the two threads, each with its handle, hold snapshots with a record in
\* them, and no insert or remove was done since the first was taken
C20_Witness ==
    /\ Cardinality(Holding \ stale) >= 2
    /\ \A t \in Holding : open_spans(t) # {}

====
